---------------------------- MODULE Spec2Model ----------------------------
(***************************************************************************)
(* A model of gsl::not_null<T> (include/gsl.h).                            *)
(*                                                                         *)
(* Two instantiations are modelled: not_null<Base*> and not_null<Derived*>,*)
(* Derived* being implicitly convertible to Base*.  A handle is a small    *)
(* integer address, 0 being the null pointer.  The state is the set of     *)
(* wrapper objects that currently exist, each with its handle type T and   *)
(* the value of its ptr_ member, and a record of the last operation the    *)
(* caller performed: what it was given, what it returned, whether it left  *)
(* by an exception, and the wrappers as they were just before it.          *)
(***************************************************************************)
EXTENDS Integers, FiniteSets

VARIABLES obj, last

vars == <<obj, last>>

---------------------------------------------------------------------------
(* Bounds of the model *)

\* wrapper objects the caller has room for
NumSlots == 2
\* Derived objects that exist; their addresses are 1..MaxObj
MaxObj == 2

---------------------------------------------------------------------------
(* Handles and wrapper objects *)

nullptr == 0

\* displacement of the Base subobject inside a Derived object
BaseOffset == 1

\* number of values std::hash<T> distinguishes
HashBuckets == 2

Slots == 1..NumSlots

\* the handle types the wrapper is instantiated over: T = Base* and
\* U = Derived*, U convertible to T
Types == {"Base", "Derived"}

\* the values of a handle type
Handles(T) == IF T = "Base" THEN 0..(MaxObj + BaseOffset) ELSE 0..MaxObj

\* the implicit conversion Derived* -> Base*: null stays null, any other
\* address is displaced to the Base subobject
Convert(u) == IF u = nullptr THEN nullptr ELSE u + BaseOffset

\* Expects(cond) of gsl_assert.h: returns when cond holds, raises otherwise
Expects(cond) == IF cond THEN "ok" ELSE "PreconditionViolation"

\* void ensure_invariant() const { Expects(ptr_ != nullptr); }
ensure_invariant(p) == Expects(p # nullptr)

---------------------------------------------------------------------------
(* The member functions, as functions of the values involved.  A result    *)
(* is [raised, ptr]: whether the function left by PreconditionViolation    *)
(* and the value of ptr_ at the moment it left.                            *)

\* a faulty get() that returns a value-initialised T instead of ptr_
get_default(p) == nullptr

\* T get() const { return ptr_; }
\* (the __assume of the _MSC_VER build is a hint to the optimiser: it emits
\* no instruction and get() still returns ptr_)
get(p) == p

\* operator T() const { return get(); }
operator_T(p) == get(p)

\* T operator->() const { return get(); }
operator_arrow(p) == get(p)

\* a faulty not_null(T) that omits the call of ensure_invariant
not_null_T_unchecked(t) == [raised |-> FALSE, ptr |-> t]

\* a faulty not_null(T) whose check is inverted: Expects(ptr_ == nullptr)
not_null_T_inverted(t) == [raised |-> Expects(t = nullptr) # "ok", ptr |-> t]

\* not_null(T t) : ptr_(t) { ensure_invariant(); }
not_null_T(t) ==
    LET p == t
    IN  [raised |-> ensure_invariant(p) # "ok", ptr |-> p]

\* a faulty operator=(const T&) that omits the call of ensure_invariant
assign_T_unchecked(cur, t) == [raised |-> FALSE, ptr |-> t]

\* not_null& operator=(const T& t) { ptr_ = t; ensure_invariant(); return *this; }
assign_T(cur, t) ==
    LET p == t
    IN  [raised |-> ensure_invariant(p) # "ok", ptr |-> p]

\* template<class... U> not_null(U... args) : ptr_(std::forward<U>(args)...)
\* { check_args<U...> arg_check; }
\* check_args is a type; declaring a variable of it executes nothing
not_null_args(u) == [raised |-> FALSE, ptr |-> Convert(u)]

\* not_null(const not_null &other) = default;
not_null_copy(o) == [raised |-> FALSE, ptr |-> o]

\* not_null& operator=(const not_null &other) = default;
assign_copy(cur, o) == [raised |-> FALSE, ptr |-> o]

\* a faulty converting operator= that omits the store into ptr_
assign_conv_skip(cur, o) == [raised |-> FALSE, ptr |-> cur]

\* template <typename U, ...> not_null& operator=(const not_null<U> &other)
\* { ptr_ = other.get(); return *this; }
assign_conv(cur, o) == [raised |-> FALSE, ptr |-> Convert(get(o))]

\* template <typename U, ...> not_null(const not_null<U> &other) { *this = other; }
\* ptr_ has no initializer: it holds an indeterminate value ind when the
\* body runs
not_null_conv(ind, o) == assign_conv(ind, o)

\* bool operator==(const T& rhs) const { return ptr_ == rhs; }
operator_eq(p, rhs) == p = rhs

\* a faulty operator!= that omits the negation
operator_ne_same(p, rhs) == operator_eq(p, rhs)

\* bool operator!=(const T& rhs) const { return !(*this == rhs); }
operator_ne(p, rhs) == ~operator_eq(p, rhs)

\* std::hash<T> of a pointer
std_hash(h) == h % HashBuckets

\* size_t operator()(const gsl::not_null<T> & value) const
\* { return hash<T>{}(value); }      value reaches hash<T> through operator T
hash_not_null(p) == std_hash(operator_T(p))

---------------------------------------------------------------------------
(* State *)

Live == DOMAIN obj

\* the wrappers in slots a and b are instances of the same not_null<T>
SameType(a, b) == obj[a].T = obj[b].T

Record(op, self, other, arg, raised, ret, truth) ==
    [op |-> op, self |-> self, other |-> other, arg |-> arg,
     raised |-> raised, ret |-> ret, truth |-> truth, pre |-> obj]

\* a not_null<T> comes to exist in slot w holding p
Created(w, T, p) ==
    [x \in Live \cup {w} |-> IF x = w THEN [T |-> T, ptr_ |-> p] ELSE obj[x]]

\* the object in slot w now holds p
Stored(w, p) == [obj EXCEPT ![w].ptr_ = p]

Init ==
    /\ obj = [x \in {} |-> [T |-> "Base", ptr_ |-> nullptr]]
    /\ last = [op |-> "none", self |-> 0, other |-> 0, arg |-> 0,
               raised |-> FALSE, ret |-> 0, truth |-> FALSE,
               pre |-> [x \in {} |-> [T |-> "Base", ptr_ |-> nullptr]]]

---------------------------------------------------------------------------
(* Operations *)

\* not_null<T> w(t), t of type T.  An exception leaving the constructor
\* means the object never exists.
Construct(w, T, t) ==
    /\ w \notin Live
    /\ LET r == not_null_T(t)
       IN  /\ obj' = IF r.raised THEN obj ELSE Created(w, T, r.ptr)
           /\ last' = Record("ctor_T", w, 0, t, r.raised, 0, FALSE)

\* not_null<Base*> w(u), u of type Derived*: the variadic constructor is
\* the better match
ConstructArgs(w, u) ==
    /\ w \notin Live
    /\ LET r == not_null_args(u)
       IN  /\ obj' = IF r.raised THEN obj ELSE Created(w, "Base", r.ptr)
           /\ last' = Record("ctor_args", w, 0, u, r.raised, 0, FALSE)

\* not_null<T> w(o), o a not_null<T>
CopyConstruct(w, o) ==
    /\ w \notin Live
    /\ o \in Live
    /\ LET r == not_null_copy(obj[o].ptr_)
       IN  /\ obj' = IF r.raised THEN obj ELSE Created(w, obj[o].T, r.ptr)
           /\ last' = Record("ctor_copy", w, o, 0, r.raised, 0, FALSE)

\* not_null<Base*> w(o), o a not_null<Derived*>
ConvertConstruct(w, o) ==
    /\ w \notin Live
    /\ o \in Live
    /\ obj[o].T = "Derived"
    /\ \E ind \in Handles("Base") :
         LET r == not_null_conv(ind, obj[o].ptr_)
         IN  /\ obj' = IF r.raised THEN obj ELSE Created(w, "Base", r.ptr)
             /\ last' = Record("ctor_conv", w, o, 0, r.raised, 0, FALSE)

\* w = t, t of type T.  The object exists before and after, whether or not
\* the operator leaves by an exception.
Assign(w, t) ==
    /\ w \in Live
    /\ t \in Handles(obj[w].T)
    /\ LET r == assign_T(obj[w].ptr_, t)
       IN  /\ obj' = Stored(w, r.ptr)
           /\ last' = Record("assign_T", w, 0, t, r.raised, 0, FALSE)

\* w = o, o a not_null<T>
CopyAssign(w, o) ==
    /\ w \in Live
    /\ o \in Live
    /\ SameType(w, o)
    /\ LET r == assign_copy(obj[w].ptr_, obj[o].ptr_)
       IN  /\ obj' = Stored(w, r.ptr)
           /\ last' = Record("assign_copy", w, o, 0, r.raised, 0, FALSE)

\* w = o, w a not_null<Base*>, o a not_null<Derived*>
ConvertAssign(w, o) ==
    /\ w \in Live
    /\ o \in Live
    /\ obj[w].T = "Base"
    /\ obj[o].T = "Derived"
    /\ LET r == assign_conv(obj[w].ptr_, obj[o].ptr_)
       IN  /\ obj' = Stored(w, r.ptr)
           /\ last' = Record("assign_conv", w, o, 0, r.raised, 0, FALSE)

\* w.get()
Get(w) ==
    /\ w \in Live
    /\ obj' = obj
    /\ last' = Record("get", w, 0, 0, FALSE, get(obj[w].ptr_), FALSE)

\* T t = w
ConvertToT(w) ==
    /\ w \in Live
    /\ obj' = obj
    /\ last' = Record("operator_T", w, 0, 0, FALSE,
                      operator_T(obj[w].ptr_), FALSE)

\* w->member
Arrow(w) ==
    /\ w \in Live
    /\ obj' = obj
    /\ last' = Record("operator_arrow", w, 0, 0, FALSE,
                      operator_arrow(obj[w].ptr_), FALSE)

\* a == b, both not_null<T>: b converts to T through operator T
Equal(a, b) ==
    /\ a \in Live
    /\ b \in Live
    /\ SameType(a, b)
    /\ obj' = obj
    /\ last' = Record("eq", a, b, 0, FALSE, 0,
                      operator_eq(obj[a].ptr_, operator_T(obj[b].ptr_)))

\* a != b, both not_null<T>
NotEqual(a, b) ==
    /\ a \in Live
    /\ b \in Live
    /\ SameType(a, b)
    /\ obj' = obj
    /\ last' = Record("ne", a, b, 0, FALSE, 0,
                      operator_ne(obj[a].ptr_, operator_T(obj[b].ptr_)))

\* a == t, t of type T
EqualRaw(a, t) ==
    /\ a \in Live
    /\ t \in Handles(obj[a].T)
    /\ obj' = obj
    /\ last' = Record("eq_raw", a, 0, t, FALSE, 0, operator_eq(obj[a].ptr_, t))

\* std::hash<not_null<T>>{}(w)
Hash(w) ==
    /\ w \in Live
    /\ obj' = obj
    /\ last' = Record("hash", w, 0, 0, FALSE, hash_not_null(obj[w].ptr_), FALSE)

\* the object in slot w goes out of scope
Destroy(w) ==
    /\ w \in Live
    /\ obj' = [x \in Live \ {w} |-> obj[x]]
    /\ last' = Record("dtor", w, 0, 0, FALSE, 0, FALSE)

Next ==
    \/ \E w \in Slots : \E T \in Types : \E t \in Handles(T) : Construct(w, T, t)
    \/ \E w \in Slots : \E u \in Handles("Derived") : ConstructArgs(w, u)
    \/ \E w \in Slots : \E o \in Slots : CopyConstruct(w, o)
    \/ \E w \in Slots : \E o \in Slots : ConvertConstruct(w, o)
    \/ \E w \in Slots : \E t \in Handles("Base") : Assign(w, t)
    \/ \E w \in Slots : \E o \in Slots : CopyAssign(w, o)
    \/ \E w \in Slots : \E o \in Slots : ConvertAssign(w, o)
    \/ \E w \in Slots : Get(w)
    \/ \E w \in Slots : ConvertToT(w)
    \/ \E w \in Slots : Arrow(w)
    \/ \E a \in Slots : \E b \in Slots : Equal(a, b)
    \/ \E a \in Slots : \E b \in Slots : NotEqual(a, b)
    \/ \E a \in Slots : \E t \in Handles("Base") : EqualRaw(a, t)
    \/ \E w \in Slots : Hash(w)
    \/ \E w \in Slots : Destroy(w)

Spec == Init /\ [][Next]_vars

---------------------------------------------------------------------------
(* Properties *)

\* C1: every wrapper object that exists holds a non-null value in ptr_,
\* whatever operations were performed and whether or not one of them left
\* by PreconditionViolation.
I1_NonNull == \A w \in Live : obj[w].ptr_ # nullptr

\* C2: constructing a wrapper from a null handle of type T raises
\* PreconditionViolation and leaves no wrapper object behind: the slot holds
\* no object and the other wrappers are as they were.
P2_NullConstructionRejected ==
    (last.op = "ctor_T" /\ last.arg = nullptr)
        => (last.raised /\ last.self \notin Live /\ obj = last.pre)

P2_Witness ==
    /\ last.op = "ctor_T"
    /\ last.arg = nullptr
    /\ last.raised
    /\ last.self \notin Live
    /\ Live # {}

\* C3: constructing a wrapper from a non-null handle h of type T does not
\* raise, and get() on the wrapper that now exists returns h.
P1_NonNullConstructionSucceeds ==
    (last.op = "ctor_T" /\ last.arg # nullptr)
        => (/\ ~last.raised
            /\ last.self \in Live
            /\ get(obj[last.self].ptr_) = last.arg)

P1_Witness ==
    /\ last.op = "ctor_T"
    /\ last.arg # nullptr
    /\ ~last.raised
    /\ last.self \in Live
    /\ get(obj[last.self].ptr_) = last.arg

\* C4: assigning a handle of type T to an existing wrapper raises
\* PreconditionViolation exactly when constructing from that handle does,
\* that is when the handle is null; when the handle is non-null the
\* assignment does not raise and get() afterwards returns the handle.
AssignRevalidates ==
    last.op = "assign_T"
        => (/\ last.raised = not_null_T(last.arg).raised
            /\ last.raised = (last.arg = nullptr)
            /\ last.arg # nullptr => get(obj[last.self].ptr_) = last.arg)

AssignRevalidates_Witness ==
    /\ last.op = "assign_T"
    /\ last.arg = nullptr
    /\ last.raised
    /\ obj[last.self].T = "Base"

\* C5: when assigning a null handle to an existing wrapper raises
\* PreconditionViolation, the wrapper's stored value afterwards is the value
\* it held before the assignment.
NoChangeOnViolation ==
    (last.op = "assign_T" /\ last.raised)
        => obj[last.self].ptr_ = last.pre[last.self].ptr_

\* C6: construction from forwarded arguments runs the same null check as
\* not_null(T): it raises PreconditionViolation, and creates no wrapper,
\* exactly when construction from the resulting handle of type T does.
ArgsConstructionValidates ==
    last.op = "ctor_args"
        => (/\ last.raised = not_null_T(Convert(last.arg)).raised
            /\ last.raised => last.self \notin Live)

\* C7: converting construction or assignment from a not_null<Derived*> never
\* raises, leaves the target holding the source's get() converted to Base*,
\* and leaves the source as it was.
ConversionPreservesValue ==
    last.op \in {"ctor_conv", "assign_conv"}
        => (/\ ~last.raised
            /\ last.self \in Live
            /\ last.other \in Live
            /\ get(obj[last.self].ptr_) = Convert(get(last.pre[last.other].ptr_))
            /\ obj[last.other] = last.pre[last.other])

ConversionPreservesValue_Witness ==
    /\ last.op = "ctor_conv"
    /\ ~last.raised
    /\ last.self \in Live
    /\ obj[last.other].ptr_ # nullptr
    /\ get(obj[last.self].ptr_) = obj[last.other].ptr_ + BaseOffset

\* C8: for wrappers a, b of the same type, a == b returns true exactly when
\* a.get() = b.get() and a != b returns the opposite; wrappers that compare
\* equal have equal hashes, and the hash of a wrapper is the hash of its
\* handle.
EqualityHashConsistent ==
    /\ last.op = "eq"
         => last.truth = (get(obj[last.self].ptr_) = get(obj[last.other].ptr_))
    /\ last.op = "ne"
         => last.truth = (get(obj[last.self].ptr_) # get(obj[last.other].ptr_))
    /\ last.op = "hash" => last.ret = std_hash(get(obj[last.self].ptr_))
    /\ \A a \in Live : \A b \in Live :
         (SameType(a, b) /\ operator_eq(obj[a].ptr_, operator_T(obj[b].ptr_)))
             => hash_not_null(obj[a].ptr_) = hash_not_null(obj[b].ptr_)

EqualityHashConsistent_Witness ==
    /\ last.op = "eq"
    /\ last.truth
    /\ last.self # last.other
    /\ obj[last.self].ptr_ # nullptr
    /\ hash_not_null(obj[last.self].ptr_) = hash_not_null(obj[last.other].ptr_)

\* C9: get(), the conversion to T and operator-> never raise, return the
\* stored handle, agree with one another, and leave every wrapper as it
\* was.
AccessPure ==
    last.op \in {"get", "operator_T", "operator_arrow"}
        => (/\ ~last.raised
            /\ obj = last.pre
            /\ last.ret = obj[last.self].ptr_
            /\ get(obj[last.self].ptr_) = obj[last.self].ptr_
            /\ operator_T(obj[last.self].ptr_) = get(obj[last.self].ptr_)
            /\ operator_arrow(obj[last.self].ptr_) = get(obj[last.self].ptr_))

AccessPure_Witness ==
    /\ last.op = "operator_arrow"
    /\ last.ret # nullptr
    /\ last.ret = obj[last.self].ptr_
    /\ Cardinality(Live) > 1

=============================================================================
